---- MODULE Spec2Model ----
(***************************************************************************)
(* Model of the GlobalGADM boundary explorer.  The repository ships        *)
(* several near-duplicate front-end scripts; the page loads exactly one of *)
(* them, which the variable `variant` records:                             *)
(*   "part_000"  on-demand variant (DuckDB-WASM + Leaflet)                 *)
(*   "part_001"  tiled variant (MapLibre + PMTiles, filtered layers)       *)
(*   "app_js"    tiled variant as in src/js/app.js                         *)
(*   "part_002"  tiled variant of src/unnamed/part_002: part_001 with the  *)
(*               layer event handlers kept in tables and taken off before  *)
(*               they are set again                                        *)
(* Every action is one event handler or one continuation of an async       *)
(* function, run to its next await (JavaScript runs each such piece        *)
(* atomically on the single UI thread).                                    *)
(***************************************************************************)
EXTENDS Integers, Sequences, FiniteSets, TLC

VARIABLES
    variant,          \* which script the page runs
    event,            \* name of the handler/continuation that ran last
    initPc,           \* position of init()
    countriesData,    \* the catalog has been loaded into the dropdown
    selectValue,      \* value of the #country-select element
    currentCountry,
    currentLevel,     \* part_000 only
    view,             \* last viewport request made on the map
    buttons,          \* levels that have a button in #admin-level-buttons
    activeButtons,    \* buttons carrying the class 'active'
    containerVisible, \* #admin-levels-container is displayed
    loading,          \* #loading-indicator is displayed (part_000)
    errors,           \* error messages shown to the user
    db, conn,         \* part_000: the engine instance and the connection the
                      \* variables refer to, numbered in the order they are
                      \* created, 0 for null
    duckDBReady,
    boundaryLayer,    \* part_000: the layer the script refers to
    mapLayers,        \* part_000: data layers actually on the Leaflet map
    calls,            \* part_000: loadBoundaries calls suspended at an await
    nCalls,           \* part_000: number of loadBoundaries calls made this far
    mapLoaded,        \* tiled: the map's 'load' event has fired
    map,              \* tiled: the MapLibre map: its sources, its layers, the
                      \* listeners delegated to the fill layers and, beside
                      \* them, part_002's tables of stored handlers
    agg               \* part_000: one aggregation, from the rows of the
                      \* country's file to the features handed to the map

vars == <<variant, event, initPc, countriesData, selectValue, currentCountry, currentLevel,
          view, buttons, activeButtons, containerVisible, loading, errors,
          db, conn, duckDBReady, boundaryLayer, mapLayers, calls, nCalls,
          mapLoaded, map, agg>>

odVars == <<currentLevel, loading, db, conn, duckDBReady, boundaryLayer,
            mapLayers, calls, nCalls>>
tiledVars == <<mapLoaded, map>>

(***************************************************************************)
(* Bounds and inputs                                                       *)
(***************************************************************************)
\* loadBoundaries calls made in one session
MaxCalls == 3
\* loadBoundaries calls polling for engine readiness at the same time
MaxWaiting == 1

NULL == "null"
NoLevel == -1

\* the catalog data/countries.json: name (also used as file name), bounds
\* [minLon, minLat, maxLon, maxLat] and admin_levels
Countries == {"A", "B", "C"}
Bounds == [c \in Countries |->
             CASE c = "A" -> <<10, 11, 20, 21>>
               [] c = "B" -> <<30, 31, 40, 41>>
               [] OTHER   -> <<50, 51, 60, 61>>]
AdminLevels == [c \in Countries |->
             CASE c = "A" -> <<1, 2>>
               [] c = "B" -> <<2>>
               [] OTHER   -> << >>]

Range(s) == {s[i] : i \in DOMAIN s}

\* readiness polls made by waitForDuckDB
PollLimit == 60
\* highest administrative level the tiled scripts loop over
MaxLevel == 5
\* listeners of one kind that part_001 leaves registered for one level
MaxHandlers == 3

(***************************************************************************)
(* Viewport requests                                                       *)
(***************************************************************************)
\* Leaflet: L.map center [20, 0], zoom 2 and map.setView([20, 0], 2)
LeafletDefaultView == [kind |-> "center", p |-> <<20, 0>>, q |-> <<2, 2>>]
\* MapLibre: center [0, 20], zoom 2 and map.flyTo({center: [0, 20], zoom: 2})
MapLibreDefaultView == [kind |-> "center", p |-> <<0, 20>>, q |-> <<2, 2>>]
\* the corners handed to Leaflet in the catalog's order, longitude first
LeafletFitBoundsLonLat(b) == [kind |-> "fit", p |-> <<b[1], b[2]>>, q |-> <<b[3], b[4]>>]
\* part_000: const [minX, minY, maxX, maxY] = bounds;
\*           map.fitBounds([[minY, minX], [maxY, maxX]])
LeafletFitBounds(b) == [kind |-> "fit", p |-> <<b[2], b[1]>>, q |-> <<b[4], b[3]>>]
\* tiled: map.fitBounds([[bounds[0], bounds[1]], [bounds[2], bounds[3]]])
MapLibreFitBounds(b) == [kind |-> "fit", p |-> <<b[1], b[2]>>, q |-> <<b[3], b[4]>>]

(***************************************************************************)
(* Initial state: init() has run to its first await, the catalog fetch.    *)
(***************************************************************************)
NoLayer == [id |-> 0, file |-> NULL, level |-> NoLevel]
EventTypes == {"click", "mouseenter", "mouseleave"}
EmptyMap == [sources |-> << >>, layers |-> << >>,
             listeners |-> [l \in 0..MaxLevel |-> [e \in EventTypes |-> 0]],
             stored |-> [l \in 0..MaxLevel |-> [e \in EventTypes |-> FALSE]]]
\* no aggregation is being looked at
NoAgg == [pc |-> "none"]

InitPage ==
    /\ variant \in {"part_000", "part_001", "app_js", "part_002"}
    /\ event = "init"
    /\ initPc = "catalog"
    /\ countriesData = FALSE
    /\ selectValue = ""
    /\ currentCountry = NULL
    /\ currentLevel = NoLevel
    /\ view = IF variant = "part_000" THEN LeafletDefaultView ELSE MapLibreDefaultView
    /\ buttons = {}
    /\ activeButtons = {}
    /\ containerVisible = FALSE
    /\ loading = (variant = "part_000")   \* loadCountriesMetadata: showLoading
    /\ errors = {}
    /\ db = 0
    /\ conn = 0
    /\ duckDBReady = FALSE
    /\ boundaryLayer = NoLayer
    /\ mapLayers = {}
    /\ calls = << >>
    /\ nCalls = 0
    /\ mapLoaded = FALSE
    /\ map = EmptyMap

Init == InitPage /\ agg = NoAgg

(***************************************************************************)
(* On-demand variant, src/unnamed/part_000                                 *)
(***************************************************************************)
OnDemand == variant = "part_000"

\* setupEventListeners has run: init() is past `await loadCountriesMetadata()`
ListenersInstalled == initPc # "catalog"

\* loadCountriesMetadata resolves: the dropdown is filled, or the fetch or
\* parse threw.  init() goes on to setupEventListeners and to initDuckDB,
\* which shows the loading indicator and awaits selectBundle.
OdCatalogLoaded ==
    /\ OnDemand /\ initPc = "catalog"
    /\ event' = "catalogLoaded" /\ UNCHANGED agg
    /\ countriesData' = TRUE
    /\ initPc' = "selectBundle"
    /\ loading' = TRUE
    /\ UNCHANGED <<variant, selectValue, currentCountry, currentLevel, view,
                   buttons, activeButtons, containerVisible, errors, db, conn,
                   duckDBReady, boundaryLayer, mapLayers, calls, nCalls,
                   mapLoaded, map>>

\* a failed catalog load that still leaves the countries in the dropdown
OdCatalogFailedFillsDropdown ==
    /\ OnDemand /\ initPc = "catalog"
    /\ event' = "catalogFailed" /\ UNCHANGED agg
    /\ errors' = errors \cup {"Failed to load country list"}
    /\ countriesData' = TRUE
    /\ initPc' = "selectBundle"
    /\ loading' = TRUE
    /\ UNCHANGED <<variant, selectValue, currentCountry,
                   currentLevel, view, buttons, activeButtons, containerVisible,
                   db, conn, duckDBReady, boundaryLayer, mapLayers, calls,
                   nCalls, mapLoaded, map>>

OdCatalogFailed ==
    /\ OnDemand /\ initPc = "catalog"
    /\ event' = "catalogFailed" /\ UNCHANGED agg
    /\ errors' = errors \cup {"Failed to load country list"}
    /\ initPc' = "selectBundle"
    /\ loading' = TRUE
    /\ UNCHANGED <<variant, countriesData, selectValue, currentCountry,
                   currentLevel, view, buttons, activeButtons, containerVisible,
                   db, conn, duckDBReady, boundaryLayer, mapLayers, calls,
                   nCalls, mapLoaded, map>>

\* initDuckDB, one await at a time
InitDuckDBStep ==
    /\ OnDemand
    /\ initPc \in {"selectBundle", "instantiate", "connect", "install", "load"}
    /\ event' = "initDuckDB" /\ UNCHANGED agg
    /\ CASE initPc = "selectBundle" ->
              \* db = new duckdb.AsyncDuckDB(logger, worker)
              /\ initPc' = "instantiate"
              /\ db' = db + 1
              /\ UNCHANGED <<conn, duckDBReady, loading>>
         [] initPc = "instantiate" ->
              /\ initPc' = "connect"
              /\ UNCHANGED <<db, conn, duckDBReady, loading>>
         [] initPc = "connect" ->
              \* conn = await db.connect()
              /\ initPc' = "install"
              /\ conn' = conn + 1
              /\ UNCHANGED <<db, duckDBReady, loading>>
         [] initPc = "install" ->
              /\ initPc' = "load"
              /\ UNCHANGED <<db, conn, duckDBReady, loading>>
         [] OTHER ->
              \* duckDBReady = true; hideLoading()
              /\ initPc' = "ready"
              /\ duckDBReady' = TRUE
              /\ loading' = FALSE
              /\ UNCHANGED <<db, conn>>
    /\ UNCHANGED <<variant, countriesData, selectValue, currentCountry,
                   currentLevel, view, buttons, activeButtons, containerVisible,
                   errors, boundaryLayer, mapLayers, calls, nCalls, mapLoaded, map>>

\* an initDuckDB that starts over after a failure
InitDuckDBFailRetries ==
    /\ OnDemand
    /\ initPc \in {"selectBundle", "instantiate", "connect", "install", "load"}
    /\ db < 2
    /\ event' = "initDuckDBFailed" /\ UNCHANGED agg
    /\ initPc' = "selectBundle"
    /\ loading' = TRUE
    /\ errors' = errors \cup {"Failed to initialize database"}
    /\ UNCHANGED <<variant, countriesData, selectValue, currentCountry, currentLevel, view,
                   buttons, activeButtons, containerVisible, db, conn,
                   duckDBReady, boundaryLayer, mapLayers, calls, nCalls,
                   mapLoaded, map>>

\* any await of initDuckDB rejects: catch { hideLoading(); showError(...) }
InitDuckDBFail ==
    /\ OnDemand
    /\ initPc \in {"selectBundle", "instantiate", "connect", "install", "load"}
    /\ event' = "initDuckDBFailed" /\ UNCHANGED agg
    /\ initPc' = "failed"
    /\ loading' = FALSE
    /\ errors' = errors \cup {"Failed to initialize database"}
    /\ UNCHANGED <<variant, countriesData, selectValue, currentCountry, currentLevel, view,
                   buttons, activeButtons, containerVisible, db, conn,
                   duckDBReady, boundaryLayer, mapLayers, calls, nCalls,
                   mapLoaded, map>>

Waiting == {i \in DOMAIN calls : calls[i].pc = "wait"}

\* bound of the model: a further loadBoundaries call may be made
CanCall == /\ nCalls < MaxCalls
           /\ (~duckDBReady \/ conn = 0) => Cardinality(Waiting) < MaxWaiting

\* loadBoundaries testing `!conn` alone before it queries
LoadBoundariesConnOnly(level, cc, btns) ==
    IF cc = NULL
    THEN UNCHANGED <<currentLevel, loading, activeButtons, calls, nCalls>>
    ELSE /\ loading' = TRUE
         /\ currentLevel' = level
         /\ activeButtons' = {b \in btns : b = level}
         /\ nCalls' = nCalls + 1
         /\ calls' = Append(calls,
                IF conn = 0
                THEN [id |-> nCalls + 1, level |-> level, pc |-> "wait",
                      polls |-> 0, file |-> NULL, country |-> cc]
                ELSE [id |-> nCalls + 1, level |-> level, pc |-> "query",
                      polls |-> 0, file |-> cc, country |-> cc])

\* loadBoundaries(level) from its entry to its first await.  cc and btns are
\* currentCountry and the level buttons at the time of the call.  The call's
\* `file` is the country whose file the query names, read from currentCountry
\* when the query is built; `country` remembers the country that was selected
\* when the call was made, which the script itself keeps nowhere.
LoadBoundaries(level, cc, btns) ==
    IF cc = NULL
    THEN UNCHANGED <<currentLevel, loading, activeButtons, calls, nCalls>>
    ELSE /\ loading' = TRUE
         /\ currentLevel' = level
         /\ activeButtons' = {b \in btns : b = level}
         /\ nCalls' = nCalls + 1
         /\ calls' = Append(calls,
                IF ~duckDBReady \/ conn = 0
                THEN [id |-> nCalls + 1, level |-> level, pc |-> "wait",
                      polls |-> 0, file |-> NULL, country |-> cc]
                ELSE [id |-> nCalls + 1, level |-> level, pc |-> "query",
                      polls |-> 0, file |-> cc, country |-> cc])

\* handleCountryChange leaving the displayed layer for loadBoundaries to replace
OdSelectCountryKeepsLayer(c) ==
    /\ OnDemand /\ ListenersInstalled /\ countriesData
    /\ c # selectValue
    /\ Len(AdminLevels[c]) > 0 => CanCall
    /\ event' = "selectCountry" /\ UNCHANGED agg
    /\ selectValue' = c
    /\ currentCountry' = c
    /\ view' = LeafletFitBounds(Bounds[c])
    /\ buttons' = Range(AdminLevels[c])
    /\ containerVisible' = TRUE
    /\ UNCHANGED <<boundaryLayer, mapLayers>>
    /\ IF Len(AdminLevels[c]) > 0
       THEN LoadBoundaries(AdminLevels[c][1], c, Range(AdminLevels[c]))
       ELSE /\ activeButtons' = {}
            /\ UNCHANGED <<currentLevel, loading, calls, nCalls>>
    /\ UNCHANGED <<variant, countriesData, initPc, errors, db, conn, duckDBReady, mapLoaded, map>>

\* handleCountryChange with a country option chosen
OdSelectCountry(c) ==
    /\ OnDemand /\ ListenersInstalled /\ countriesData
    /\ c # selectValue
    /\ Len(AdminLevels[c]) > 0 => CanCall
    /\ event' = "selectCountry" /\ UNCHANGED agg
    /\ selectValue' = c
    /\ currentCountry' = c
    /\ view' = LeafletFitBounds(Bounds[c])
    /\ buttons' = Range(AdminLevels[c])
    /\ containerVisible' = TRUE
    /\ boundaryLayer' = NoLayer
    /\ mapLayers' = mapLayers \ {boundaryLayer}
    /\ IF Len(AdminLevels[c]) > 0
       THEN LoadBoundaries(AdminLevels[c][1], c, Range(AdminLevels[c]))
       ELSE /\ activeButtons' = {}
            /\ UNCHANGED <<currentLevel, loading, calls, nCalls>>
    /\ UNCHANGED <<variant, countriesData, initPc, errors, db, conn, duckDBReady, mapLoaded, map>>

\* handleCountryChange with the empty option chosen
OdClearSelection ==
    /\ OnDemand /\ ListenersInstalled
    /\ selectValue # ""
    /\ event' = "clearSelection" /\ UNCHANGED agg
    /\ selectValue' = ""
    /\ containerVisible' = FALSE
    /\ boundaryLayer' = NoLayer
    /\ mapLayers' = mapLayers \ {boundaryLayer}
    /\ view' = LeafletDefaultView
    /\ UNCHANGED <<variant, countriesData, initPc, currentCountry, currentLevel, buttons,
                   activeButtons, loading, errors, db, conn, duckDBReady,
                   calls, nCalls, mapLoaded, map>>

\* click on a level button: loadBoundaries(level)
SelectLevel(level) ==
    /\ OnDemand
    /\ level \in buttons /\ containerVisible
    /\ CanCall
    /\ event' = "selectLevel" /\ UNCHANGED agg
    /\ LoadBoundaries(level, currentCountry, buttons)
    /\ UNCHANGED <<variant, countriesData, initPc, selectValue, currentCountry, view, buttons,
                   containerVisible, errors, db, conn, duckDBReady,
                   boundaryLayer, mapLayers, mapLoaded, map>>

RemoveAt(s, i) == [j \in 1..(Len(s) - 1) |-> IF j < i THEN s[j] ELSE s[j + 1]]

\* a loadBoundaries that ignores the result of waitForDuckDB and queries
PollTimeoutQueries(i) ==
    /\ OnDemand
    /\ i \in Waiting /\ \A j \in Waiting : i <= j
    /\ event' = "poll" /\ UNCHANGED agg
    /\ IF (duckDBReady /\ conn # 0) \/ calls[i].polls + 1 >= PollLimit
       THEN calls' = [calls EXCEPT ![i] = [@ EXCEPT !.pc = "query",
                                                    !.polls = @ + 1,
                                                    !.file = currentCountry]]
       ELSE calls' = Append(RemoveAt(calls, i), [calls[i] EXCEPT !.polls = @ + 1])
    /\ UNCHANGED <<variant, countriesData, initPc, selectValue, currentCountry,
                   currentLevel, view, buttons, activeButtons, containerVisible,
                   db, conn, duckDBReady, boundaryLayer, mapLayers, nCalls,
                   mapLoaded, map, loading, errors>>

\* one 500 ms timer of waitForDuckDB fires for the i-th suspended call.  All
\* the timers have the same delay, so they fire in the order they were set:
\* `calls` keeps the waiting calls in that order.
Poll(i) ==
    /\ OnDemand
    /\ i \in Waiting /\ \A j \in Waiting : i <= j
    /\ event' = "poll" /\ UNCHANGED agg
    /\ IF duckDBReady /\ conn # 0
       THEN \* ready: loadBoundaries goes on to build and issue its query
            /\ calls' = [calls EXCEPT ![i] = [@ EXCEPT !.pc = "query",
                                                !.polls = @ + 1,
                                                !.file = currentCountry]]
            /\ UNCHANGED <<loading, errors>>
       ELSE IF calls[i].polls + 1 < PollLimit
       THEN \* the loop sets the next timer
            /\ calls' = Append(RemoveAt(calls, i),
                               [calls[i] EXCEPT !.polls = @ + 1])
            /\ UNCHANGED <<loading, errors>>
       ELSE \* waitForDuckDB returns false
            /\ calls' = RemoveAt(calls, i)
            /\ loading' = FALSE
            /\ errors' = errors \cup {"Database failed to initialize"}
    /\ UNCHANGED <<variant, countriesData, initPc, selectValue, currentCountry,
                   currentLevel, view, buttons, activeButtons, containerVisible,
                   db, conn, duckDBReady, boundaryLayer, mapLayers, nCalls,
                   mapLoaded, map>>

\* the layer L.geoJSON builds from the rows of a query
ResultLayer(call) == [id |-> call.id, file |-> call.file, level |-> call.level]

\* QueryResolved without `if (boundaryLayer) map.removeLayer(boundaryLayer)`
QueryResolvedKeepsOldLayer(i) ==
    /\ OnDemand
    /\ i \in DOMAIN calls /\ calls[i].pc = "query"
    /\ event' = "queryResolved" /\ UNCHANGED agg
    /\ calls' = RemoveAt(calls, i)
    /\ mapLayers' = mapLayers \cup {ResultLayer(calls[i])}
    /\ boundaryLayer' = ResultLayer(calls[i])
    /\ loading' = FALSE
    /\ UNCHANGED <<variant, countriesData, initPc, selectValue, currentCountry,
                   currentLevel, view, buttons, activeButtons, containerVisible,
                   errors, db, conn, duckDBReady, nCalls, mapLoaded, map>>

\* `await conn.query(query)` of the i-th suspended call resolves
QueryResolved(i) ==
    /\ OnDemand
    /\ i \in DOMAIN calls /\ calls[i].pc = "query"
    /\ event' = "queryResolved" /\ UNCHANGED agg
    /\ calls' = RemoveAt(calls, i)
    /\ mapLayers' = (mapLayers \ {boundaryLayer}) \cup {ResultLayer(calls[i])}
    /\ boundaryLayer' = ResultLayer(calls[i])
    /\ loading' = FALSE
    /\ UNCHANGED <<variant, countriesData, initPc, selectValue, currentCountry, currentLevel,
                   view, buttons, activeButtons, containerVisible, errors, db,
                   conn, duckDBReady, nCalls, mapLoaded, map>>

\* a failed query that marks the engine as not ready
QueryFailedEngineDown(i) ==
    /\ OnDemand
    /\ i \in DOMAIN calls /\ calls[i].pc = "query"
    /\ event' = "queryFailed" /\ UNCHANGED agg
    /\ calls' = RemoveAt(calls, i)
    /\ loading' = FALSE
    /\ duckDBReady' = FALSE
    /\ errors' = errors \cup {"Failed to load boundaries"}
    /\ UNCHANGED <<variant, countriesData, initPc, selectValue, currentCountry, currentLevel,
                   view, buttons, activeButtons, containerVisible, db, conn,
                   boundaryLayer, mapLayers, nCalls, mapLoaded, map>>

\* a failed query whose catch block leaves the loading indicator on
QueryFailedKeepsLoading(i) ==
    /\ OnDemand
    /\ i \in DOMAIN calls /\ calls[i].pc = "query"
    /\ event' = "queryFailed" /\ UNCHANGED agg
    /\ calls' = RemoveAt(calls, i)
    /\ errors' = errors \cup {"Failed to load boundaries"}
    /\ UNCHANGED <<variant, countriesData, initPc, selectValue, currentCountry, currentLevel,
                   view, buttons, activeButtons, containerVisible, db, conn, loading,
                   duckDBReady, boundaryLayer, mapLayers, nCalls, mapLoaded, map>>

\* `await conn.query(query)` of the i-th suspended call rejects
QueryFailed(i) ==
    /\ OnDemand
    /\ i \in DOMAIN calls /\ calls[i].pc = "query"
    /\ event' = "queryFailed" /\ UNCHANGED agg
    /\ calls' = RemoveAt(calls, i)
    /\ loading' = FALSE
    /\ errors' = errors \cup {"Failed to load boundaries"}
    /\ UNCHANGED <<variant, countriesData, initPc, selectValue, currentCountry, currentLevel,
                   view, buttons, activeButtons, containerVisible, db, conn,
                   duckDBReady, boundaryLayer, mapLayers, nCalls, mapLoaded, map>>

NextOnDemand ==
    \/ OdCatalogLoaded
    \/ OdCatalogFailed
    \/ InitDuckDBStep
    \/ InitDuckDBFail
    \/ \E c \in Countries : OdSelectCountry(c)
    \/ OdClearSelection
    \/ \E l \in 1..MaxLevel : SelectLevel(l)
    \/ \E i \in 1..MaxCalls : Poll(i)
    \/ \E i \in 1..MaxCalls : QueryResolved(i)
    \/ \E i \in 1..MaxCalls : QueryFailed(i)

(***************************************************************************)
(* Tiled variants, src/unnamed/part_001 and src/js/app.js.  The MapLibre   *)
(* style is kept as the map keeps it: a list of sources and an ordered     *)
(* list of layers, in which a second entry with the same id could be told  *)
(* apart from the first.                                                   *)
(***************************************************************************)
Tiled == variant \in {"part_001", "app_js", "part_002"}
\* part_002's tiled script is part_001's but for the layer event handlers
Filtered == variant \in {"part_001", "part_002"}

SourceId(level) == level                \* `gadm-level${level}`
LineLayerId(level) == <<"line", level>> \* `layer-line-${level}`
FillLayerId(level) == <<"fill", level>> \* `layer-fill-${level}`

\* map.getSource(id) / map.getLayer(id)
GetSource(m, id) == \E i \in DOMAIN m.sources : m.sources[i].id = id
GetLayer(m, id) == \E i \in DOMAIN m.layers : m.layers[i].id = id

\* map.addSource(id, {url: ...gadm_level${level}.pmtiles})
AddSource(m, level) ==
    [m EXCEPT !.sources = Append(@, [id |-> SourceId(level), url |-> level])]

\* map.addLayer(def [, beforeId]): appended, or put before the layer beforeId
InsertAt(s, i, x) ==
    [j \in 1..(Len(s) + 1) |-> IF j < i THEN s[j] ELSE IF j = i THEN x ELSE s[j - 1]]
AddLayer(m, def) == [m EXCEPT !.layers = Append(@, def)]
AddLayerBefore(m, def, beforeId) ==
    IF GetLayer(m, beforeId)
    THEN LET i == CHOOSE k \in DOMAIN m.layers :
                      /\ m.layers[k].id = beforeId
                      /\ \A j \in 1..(k - 1) : m.layers[j].id # beforeId
         IN [m EXCEPT !.layers = InsertAt(@, i, def)]
    ELSE AddLayer(m, def)

\* map.removeLayer(id)
RemoveLayer(m, id) ==
    [m EXCEPT !.layers = SelectSeq(@, LAMBDA l : l.id # id)]

\* map.setLayoutProperty(id, 'visibility', ...)
SetLayoutProperty(m, id, isVisible) ==
    [m EXCEPT !.layers = [i \in DOMAIN @ |->
        IF @[i].id = id THEN [@[i] EXCEPT !.visible = isVisible] ELSE @[i]]]

\* map.setPaintProperty('layer-line-0', 'line-color' and 'line-width', ...):
\* highlight is the country the case-expression singles out, NULL for the
\* plain STYLES[level] values
SetPaintProperty(m, id, highlight) ==
    [m EXCEPT !.layers = [i \in DOMAIN @ |->
        IF @[i].id = id THEN [@[i] EXCEPT !.highlight = highlight] ELSE @[i]]]

\* map.on(type, fillLayerId, handler) for the three event types.  A listener
\* delegated to a layer id stays registered when the layer is removed.
Register(m, level) ==
    [m EXCEPT !.listeners[level] = [e \in EventTypes |-> @[e] + 1]]

\* part_002 with the stored handlers never taken off
RegisterReplacingNoCleanup(m, level) ==
    [m EXCEPT !.listeners[level] = [e \in EventTypes |-> @[e] + 1],
              !.stored[level] = [e \in EventTypes |-> TRUE]]

\* part_002: map.off(type, fillLayerId, stored handler) where one is stored,
\* then new handlers are stored and registered
RegisterReplacing(m, level) ==
    [m EXCEPT !.listeners[level] =
                  [e \in EventTypes |->
                      (IF m.stored[level][e] /\ @[e] > 0 THEN @[e] - 1 ELSE @[e]) + 1],
              !.stored[level] = [e \in EventTypes |-> TRUE]]

LayerDef(id, isVisible, filter) ==
    [id |-> id, visible |-> isVisible, filter |-> filter, highlight |-> NULL]

\* addLevelLayer adding the source without asking map.getSource first
AddLevelLayerSourceUnchecked(m, level, isVisible, cc) ==
    LET filter == IF level > 0 /\ cc # NULL THEN cc ELSE NULL
        m1 == AddSource(m, level)
        m2 == IF ~GetLayer(m1, LineLayerId(level))
              THEN AddLayer(m1, LayerDef(LineLayerId(level), isVisible, filter))
              ELSE m1
    IN IF ~GetLayer(m2, FillLayerId(level))
       THEN Register(AddLayerBefore(m2, LayerDef(FillLayerId(level), isVisible, filter),
                                    LineLayerId(level)), level)
       ELSE m2

\* addLevelLayer adding the line layer without asking map.getLayer first
AddLevelLayerLineUnchecked(m, level, isVisible, cc) ==
    LET filter == IF level > 0 /\ cc # NULL THEN cc ELSE NULL
        m1 == IF ~GetSource(m, SourceId(level)) THEN AddSource(m, level) ELSE m
        m2 == AddLayer(m1, LayerDef(LineLayerId(level), isVisible, filter))
    IN IF ~GetLayer(m2, FillLayerId(level))
       THEN Register(AddLayerBefore(m2, LayerDef(FillLayerId(level), isVisible, filter),
                                    LineLayerId(level)), level)
       ELSE m2

\* addLevelLayer creating the fill layer hidden whatever isVisible says
AddLevelLayerFillHidden(m, level, isVisible, cc) ==
    LET filter == IF level > 0 /\ cc # NULL THEN cc ELSE NULL
        m1 == IF ~GetSource(m, SourceId(level)) THEN AddSource(m, level) ELSE m
        m2 == IF ~GetLayer(m1, LineLayerId(level))
              THEN AddLayer(m1, LayerDef(LineLayerId(level), isVisible, filter))
              ELSE m1
    IN IF ~GetLayer(m2, FillLayerId(level))
       THEN Register(AddLayerBefore(m2, LayerDef(FillLayerId(level), FALSE, filter),
                                    LineLayerId(level)), level)
       ELSE m2

\* part_001 addLevelLayer(level, isVisible); cc is currentCountry
AddLevelLayer(m, level, isVisible, cc) ==
    LET filter == IF level > 0 /\ cc # NULL THEN cc ELSE NULL
        m1 == IF ~GetSource(m, SourceId(level)) THEN AddSource(m, level) ELSE m
        m2 == IF ~GetLayer(m1, LineLayerId(level))
              THEN AddLayer(m1, LayerDef(LineLayerId(level), isVisible, filter))
              ELSE m1
    IN IF ~GetLayer(m2, FillLayerId(level))
       THEN Register(AddLayerBefore(m2, LayerDef(FillLayerId(level), isVisible, filter),
                                    LineLayerId(level)), level)
       ELSE m2

\* src/js/app.js addLevelLayer(level, isVisible): no filter is set
AppAddLevelLayer(m, level, isVisible) ==
    LET m1 == IF ~GetSource(m, SourceId(level)) THEN AddSource(m, level) ELSE m
        m2 == IF ~GetLayer(m1, LineLayerId(level))
              THEN AddLayer(m1, LayerDef(LineLayerId(level), isVisible, NULL))
              ELSE m1
    IN IF ~GetLayer(m2, FillLayerId(level))
       THEN Register(AddLayerBefore(m2, LayerDef(FillLayerId(level), isVisible, NULL),
                                    LineLayerId(level)), level)
       ELSE m2

\* part_002 addLevelLayer(level, isVisible); cc is currentCountry
AddLevelLayer2(m, level, isVisible, cc) ==
    LET filter == IF level > 0 /\ cc # NULL THEN cc ELSE NULL
        m1 == IF ~GetSource(m, SourceId(level)) THEN AddSource(m, level) ELSE m
        m2 == IF ~GetLayer(m1, LineLayerId(level))
              THEN AddLayer(m1, LayerDef(LineLayerId(level), isVisible, filter))
              ELSE m1
    IN IF ~GetLayer(m2, FillLayerId(level))
       THEN RegisterReplacing(
                AddLayerBefore(m2, LayerDef(FillLayerId(level), isVisible, filter),
                               LineLayerId(level)), level)
       ELSE m2

\* the addLevelLayer of the script the page runs
AddLevelLayerOf(v, m, level, isVisible, cc) ==
    CASE v = "part_001" -> AddLevelLayer(m, level, isVisible, cc)
      [] v = "part_002" -> AddLevelLayer2(m, level, isVisible, cc)
      [] OTHER -> AppAddLevelLayer(m, level, isVisible)

\* setLayerVisibility forgetting the fill layer
SetLayerVisibilityLineOnly(m, level, isVisible) ==
    IF GetLayer(m, LineLayerId(level))
    THEN SetLayoutProperty(m, LineLayerId(level), isVisible) ELSE m

\* setLayerVisibility(level, isVisible), the same in both scripts
SetLayerVisibility(m, level, isVisible) ==
    LET m1 == IF GetLayer(m, LineLayerId(level))
              THEN SetLayoutProperty(m, LineLayerId(level), isVisible) ELSE m
    IN IF GetLayer(m1, FillLayerId(level))
       THEN SetLayoutProperty(m1, FillLayerId(level), isVisible) ELSE m1

\* what createLevelButton and its button's onclick do to the map:
\* addLevelLayer(level, v); setLayerVisibility(level, v)
EnsureLevelVisible(v, m, level, isVisible, cc) ==
    SetLayerVisibility(AddLevelLayerOf(v, m, level, isVisible, cc), level, isVisible)

\* the removal loop forgetting the line layers
RECURSIVE RemoveAdminLayersFillOnly(_, _)
RemoveAdminLayersFillOnly(m, i) ==
    IF i > MaxLevel THEN m
    ELSE RemoveAdminLayersFillOnly(
             IF GetLayer(m, FillLayerId(i)) THEN RemoveLayer(m, FillLayerId(i)) ELSE m,
             i + 1)

\* the removal loop dropping each level's source together with its layers
RECURSIVE RemoveAdminLayersAndSources(_, _)
RemoveAdminLayersAndSources(m, i) ==
    IF i > MaxLevel THEN m
    ELSE LET m1 == IF GetLayer(m, FillLayerId(i)) THEN RemoveLayer(m, FillLayerId(i)) ELSE m
             m2 == IF GetLayer(m1, LineLayerId(i)) THEN RemoveLayer(m1, LineLayerId(i)) ELSE m1
             m3 == [m2 EXCEPT !.sources = SelectSeq(@, LAMBDA src : src.id # SourceId(i))]
         IN RemoveAdminLayersAndSources(m3, i + 1)

\* for (let i = 1; i <= 5; i++) { removeLayer(fill-i); removeLayer(line-i) }
RECURSIVE RemoveAdminLayers(_, _)
RemoveAdminLayers(m, i) ==
    IF i > MaxLevel THEN m
    ELSE LET m1 == IF GetLayer(m, FillLayerId(i)) THEN RemoveLayer(m, FillLayerId(i)) ELSE m
             m2 == IF GetLayer(m1, LineLayerId(i)) THEN RemoveLayer(m1, LineLayerId(i)) ELSE m1
         IN RemoveAdminLayers(m2, i + 1)

\* country.admin_levels.forEach(level => createLevelButton(level, ...))
RECURSIVE CreateLevelButtons(_, _, _, _)
CreateLevelButtons(v, m, levels, cc) ==
    IF levels = << >> THEN m
    ELSE CreateLevelButtons(v, EnsureLevelVisible(v, m, Head(levels), FALSE, cc),
                            Tail(levels), cc)

\* updateAdminLevelUI(country): the map it leaves
UpdateAdminLevelUI(v, m, c) ==
    CreateLevelButtons(v, EnsureLevelVisible(v, m, 0, TRUE, c), AdminLevels[c], c)

\* loadCountriesMetadata resolves and init() runs setupEventListeners
TiledCatalogLoaded ==
    /\ Tiled /\ initPc = "catalog"
    /\ event' = "catalogLoaded" /\ UNCHANGED agg
    /\ countriesData' = TRUE
    /\ initPc' = "listening"
    /\ UNCHANGED <<variant, selectValue, currentCountry, view, buttons,
                   activeButtons, containerVisible, errors, odVars, tiledVars>>

\* the fetch or the parse threw: alert(...), then setupEventListeners
TiledCatalogFailed ==
    /\ Tiled /\ initPc = "catalog"
    /\ event' = "catalogFailed" /\ UNCHANGED agg
    /\ errors' = errors \cup {"Failed to load country list"}
    /\ initPc' = "listening"
    /\ UNCHANGED <<variant, countriesData, selectValue, currentCountry, view,
                   buttons, activeButtons, containerVisible, odVars, tiledVars>>

\* map.on('load', () => addLevelLayer(0, true))
MapLoad ==
    /\ Tiled /\ ~mapLoaded
    /\ event' = "mapLoad" /\ UNCHANGED agg
    /\ mapLoaded' = TRUE
    /\ map' = AddLevelLayerOf(variant, map, 0, TRUE, currentCountry)
    /\ UNCHANGED <<variant, initPc, countriesData, selectValue, currentCountry,
                   view, buttons, activeButtons, containerVisible, errors, odVars>>

\* bound of the model: part_001 may register one more set of listeners for
\* each level of country c
CanRegister(c) ==
    variant = "part_001" =>
        \A l \in Range(AdminLevels[c]) : map.listeners[l]["click"] < MaxHandlers

\* handleCountryChange without the loop that removes the admin layers
SelectCountryKeepsLayers(c) ==
    /\ Filtered /\ initPc = "listening" /\ countriesData
    /\ c # selectValue
    /\ CanRegister(c)
    /\ event' = "selectCountry" /\ UNCHANGED agg
    /\ selectValue' = c
    /\ currentCountry' = c
    /\ view' = MapLibreFitBounds(Bounds[c])
    /\ LET m1 == IF GetLayer(map, LineLayerId(0))
                 THEN SetPaintProperty(map, LineLayerId(0), c) ELSE map
       IN map' = UpdateAdminLevelUI(variant, m1, c)
    /\ containerVisible' = TRUE
    /\ buttons' = {0} \cup Range(AdminLevels[c])
    /\ activeButtons' = {0}
    /\ UNCHANGED <<variant, initPc, countriesData, errors, odVars, mapLoaded>>

\* part_001 handleCountryChange with a country option chosen
SelectCountry(c) ==
    /\ Filtered /\ initPc = "listening" /\ countriesData
    /\ c # selectValue
    /\ CanRegister(c)
    /\ event' = "selectCountry" /\ UNCHANGED agg
    /\ selectValue' = c
    /\ currentCountry' = c
    /\ view' = MapLibreFitBounds(Bounds[c])
    /\ LET m1 == IF GetLayer(map, LineLayerId(0))
                 THEN SetPaintProperty(map, LineLayerId(0), c) ELSE map
           m2 == RemoveAdminLayers(m1, 1)
       IN map' = UpdateAdminLevelUI(variant, m2, c)
    /\ containerVisible' = TRUE
    /\ buttons' = {0} \cup Range(AdminLevels[c])
    /\ activeButtons' = {0}
    /\ UNCHANGED <<variant, initPc, countriesData, errors, odVars, mapLoaded>>

\* resetAdminLevels with its loop starting at level 0
ResetAdminLevelsFromZero(m) == RemoveAdminLayers(m, 0)

\* part_001 resetAdminLevels(): the map it leaves
ResetAdminLevels(m) == RemoveAdminLayers(m, 1)

\* the level-0 paint left as the last selection set it
ResetLevel0StyleKept(m) == m

\* part_001 "Reset Level 0 style"
ResetLevel0Style(m) ==
    IF GetLayer(m, LineLayerId(0)) THEN SetPaintProperty(m, LineLayerId(0), NULL) ELSE m

\* part_001 handleCountryChange with the empty option chosen
ClearSelection ==
    /\ Filtered /\ initPc = "listening"
    /\ selectValue # ""
    /\ event' = "clearSelection" /\ UNCHANGED agg
    /\ selectValue' = ""
    /\ currentCountry' = NULL
    /\ buttons' = {}
    /\ activeButtons' = {}
    /\ containerVisible' = FALSE
    /\ map' = ResetLevel0Style(ResetAdminLevels(map))
    /\ UNCHANGED <<variant, initPc, countriesData, view, errors, odVars, mapLoaded>>

\* the reset action with a resetAdminLevels that leaves the level buttons
ResetViewKeepsButtons ==
    /\ Filtered /\ initPc = "listening"
    /\ event' = "reset" /\ UNCHANGED agg
    /\ view' = MapLibreDefaultView
    /\ selectValue' = ""
    /\ currentCountry' = NULL
    /\ map' = ResetLevel0Style(ResetAdminLevels(map))
    /\ UNCHANGED <<variant, initPc, countriesData, buttons, activeButtons,
                   containerVisible, errors, odVars, mapLoaded>>

\* part_001 click on #reset-view
ResetView ==
    /\ Filtered /\ initPc = "listening"
    /\ event' = "reset" /\ UNCHANGED agg
    /\ view' = MapLibreDefaultView
    /\ selectValue' = ""
    /\ currentCountry' = NULL
    /\ buttons' = {}
    /\ activeButtons' = {}
    /\ containerVisible' = FALSE
    /\ map' = ResetLevel0Style(ResetAdminLevels(map))
    /\ UNCHANGED <<variant, initPc, countriesData, errors, odVars, mapLoaded>>

\* a level button that removes the level's layers when switched off
ToggleLevelRemovesLayers(level) ==
    /\ Tiled /\ initPc = "listening"
    /\ level \in buttons /\ containerVisible
    /\ event' = "toggleLevel" /\ UNCHANGED agg
    /\ LET isActive == level \notin activeButtons
       IN /\ activeButtons' = IF isActive THEN activeButtons \cup {level}
                              ELSE activeButtons \ {level}
          /\ map' = IF isActive
                    THEN EnsureLevelVisible(variant, map, level, isActive, currentCountry)
                    ELSE RemoveLayer(RemoveLayer(map, FillLayerId(level)),
                                     LineLayerId(level))
    /\ UNCHANGED <<variant, initPc, countriesData, selectValue, currentCountry,
                   view, buttons, containerVisible, errors, odVars, mapLoaded>>

\* click on a level button (createLevelButton's onclick), both scripts
ToggleLevel(level) ==
    /\ Tiled /\ initPc = "listening"
    /\ level \in buttons /\ containerVisible
    /\ event' = "toggleLevel" /\ UNCHANGED agg
    /\ LET isActive == level \notin activeButtons
       IN /\ activeButtons' = IF isActive THEN activeButtons \cup {level}
                              ELSE activeButtons \ {level}
          /\ map' = EnsureLevelVisible(variant, map, level, isActive, currentCountry)
    /\ UNCHANGED <<variant, initPc, countriesData, selectValue, currentCountry,
                   view, buttons, containerVisible, errors, odVars, mapLoaded>>

\* src/js/app.js handleCountryChange with a country option chosen
AppSelectCountry(c) ==
    /\ variant = "app_js" /\ initPc = "listening" /\ countriesData
    /\ c # selectValue
    /\ event' = "selectCountry" /\ UNCHANGED agg
    /\ selectValue' = c
    /\ currentCountry' = c
    /\ view' = MapLibreFitBounds(Bounds[c])
    /\ map' = UpdateAdminLevelUI(variant, map, c)
    /\ containerVisible' = TRUE
    /\ buttons' = {0} \cup Range(AdminLevels[c])
    /\ activeButtons' = {0}
    /\ UNCHANGED <<variant, initPc, countriesData, errors, odVars, mapLoaded>>

\* src/js/app.js handleCountryChange with the empty option: `if (!countryName) return`
AppClearSelection ==
    /\ variant = "app_js" /\ initPc = "listening"
    /\ selectValue # ""
    /\ event' = "clearSelection" /\ UNCHANGED agg
    /\ selectValue' = ""
    /\ UNCHANGED <<variant, initPc, countriesData, currentCountry, view, buttons,
                   activeButtons, containerVisible, errors, odVars, tiledVars>>

\* src/js/app.js resetAdminLevels(): hide 1..5, show 0
RECURSIVE AppHideAdminLayers(_, _)
AppHideAdminLayers(m, i) ==
    IF i > MaxLevel THEN m
    ELSE AppHideAdminLayers(SetLayerVisibility(m, i, FALSE), i + 1)
\* resetAdminLevels without its last line, setLayerVisibility(0, true)
AppResetAdminLevelsKeepsLevel0(m) == AppHideAdminLayers(m, 1)
AppResetAdminLevels(m) == SetLayerVisibility(AppHideAdminLayers(m, 1), 0, TRUE)

\* src/js/app.js click on #reset-view
AppResetView ==
    /\ variant = "app_js" /\ initPc = "listening"
    /\ event' = "reset" /\ UNCHANGED agg
    /\ view' = MapLibreDefaultView
    /\ selectValue' = ""
    /\ containerVisible' = FALSE
    /\ map' = AppResetAdminLevels(map)
    /\ UNCHANGED <<variant, initPc, countriesData, currentCountry, buttons,
                   activeButtons, errors, odVars, mapLoaded>>

NextTiled ==
    \/ TiledCatalogLoaded
    \/ TiledCatalogFailed
    \/ MapLoad
    \/ \E c \in Countries : SelectCountry(c)
    \/ ClearSelection
    \/ ResetView
    \/ \E l \in 0..MaxLevel : ToggleLevel(l)
    \/ \E c \in Countries : AppSelectCountry(c)
    \/ AppClearSelection
    \/ AppResetView

Next == NextOnDemand \/ NextTiled

\* the page runs the on-demand script
InitOnDemand == Init /\ OnDemand
SpecOnDemand == InitOnDemand /\ [][NextOnDemand]_vars

\* the page runs one of the tiled scripts
InitTiled == Init /\ Tiled
SpecTiled == InitTiled /\ [][NextTiled]_vars

\* the on-demand script with its timers firing: a timer that has been set
\* is eventually run by the event loop
SpecOnDemandFair ==
    SpecOnDemand /\ WF_vars(\E i \in 1..MaxCalls : Poll(i))

\* the on-demand script with every fetch, engine call and timer coming to an
\* end: the catalog fetch, each await of initDuckDB and each query resolves
\* or rejects, and a timer that has been set fires
SpecOnDemandLive ==
    /\ SpecOnDemand
    /\ WF_vars(OdCatalogLoaded \/ OdCatalogFailed)
    /\ WF_vars(InitDuckDBStep \/ InitDuckDBFail)
    /\ WF_vars(\E i \in 1..MaxCalls : Poll(i))
    /\ WF_vars(\E i \in 1..MaxCalls : QueryResolved(i) \/ QueryFailed(i))

Spec == Init /\ [][Next]_vars

(***************************************************************************)
(* The aggregation of loadBoundaries (part_000), taken by itself: the rows *)
(* of the country's file, the rows the query returns, the features built   *)
(* from them, and beside them what the offline conversion                  *)
(* (src/process_data.sh) extracts from the same rows.                      *)
(***************************************************************************)
\* raw rows in the country's table
MaxRows == 3
\* the levels the page can ask for, and the levels process_data.sh extracts
AggLevels == 1..MaxLevel
OfflineLevels == 1..3

\* a geometry is the set of cells it covers, so that the geometric union is
\* the union of sets
Geometries == {{1}, {2}}

\* raw rows with the columns NAME_0..NAME_5, TYPE_k, ENGTYPE_k, GID_k and
\* geometry; the columns the level-L queries read take several values
RawRows(L) ==
    { [NAME     |-> [k \in 0..MaxLevel |->
                       IF k = L THEN n
                       ELSE IF k = 0 THEN "X"
                       ELSE IF k = L - 1 THEN p
                       ELSE IF k = L - 2 THEN a
                       ELSE IF k < L THEN "u" ELSE ""],
       TYPE     |-> [k \in 1..MaxLevel |-> IF k <= L THEN "t" ELSE ""],
       ENGTYPE  |-> [k \in 1..MaxLevel |-> IF k <= L THEN "e" ELSE ""],
       GID      |-> [k \in 1..MaxLevel |-> IF k = L THEN g
                                           ELSE IF k < L THEN "X.u" ELSE ""],
       geometry |-> c] :
      n \in {NULL, "", "n"}, p \in {"", "p"}, a \in {"a", "b"},
      g \in {"g", "h"}, c \in Geometries }

\* the tables of at most n raw rows
RECURSIVE TablesUpTo(_, _)
TablesUpTo(L, n) ==
    IF n = 0 THEN {{}}
    ELSE LET T == TablesUpTo(L, n - 1)
         IN  T \cup {t \cup {r} : t \in T, r \in RawRows(L)}
Tables(L) == TablesUpTo(L, MaxRows)

\* the rows of a table that share the grouping key of one of them
Groups(rows, key) ==
    {{r \in rows : key[r] = key[s]} : s \in rows}

\* an aggregate that keeps one geometry of the group
ST_Any_Agg(g) == (CHOOSE r \in g : TRUE).geometry
\* ST_Union_Agg(ST_GeomFromWKB(geometry)) over the rows of a group
ST_Union_Agg(g) == UNION {r.geometry : r \in g}

\* ST_AsGeoJSON: the text that encodes a geometry; Malformed is a text that
\* is not JSON
ST_AsGeoJSON(geom) == [text |-> "geojson", of |-> geom]
Malformed == [text |-> "malformed", of |-> {}]
\* JSON.parse: the geometry a text encodes, or an exception
JSONparse(t) ==
    IF t.text = "geojson" THEN [threw |-> FALSE, value |-> t.of]
    ELSE [threw |-> TRUE, value |-> {}]

\* WHERE NAME_L IS NOT NULL only
OnlineWhereNotNullOnly(row, L) == row.NAME[L] # NULL
\* WHERE NAME_L IS NOT NULL AND NAME_L != ''
OnlineWhere(row, L) == row.NAME[L] # NULL /\ row.NAME[L] # ""
\* GROUP BY NAME_L, TYPE_L, ENGTYPE_L, GID_L, NAME_0 [, NAME_(L-1)]
OnlineKey(row, L) ==
    <<row.NAME[L], row.TYPE[L], row.ENGTYPE[L], row.GID[L], row.NAME[0]>>
    \o (IF L > 1 THEN <<row.NAME[L - 1]>> ELSE << >>)
OnlineGroups(rows, L) ==
    Groups({r \in rows : OnlineWhere(r, L)}, [r \in rows |-> OnlineKey(r, L)])

\* SELECT NAME_L as name, ..., [NAME_(L-1) as parent,] ST_AsGeoJSON(...) as
\* geojson: the result row of one group
ResultRow(g, L) ==
    LET r == CHOOSE x \in g : TRUE
        cols == [name |-> r.NAME[L], type |-> r.TYPE[L],
                 eng_type |-> r.ENGTYPE[L], gid |-> r.GID[L],
                 country |-> r.NAME[0],
                 geojson |-> ST_AsGeoJSON(ST_Union_Agg(g))]
    IN  IF L > 1 THEN cols @@ [parent |-> r.NAME[L - 1]] ELSE cols

\* the orders in which a result can list its rows
Orderings(S) ==
    {s \in [1..Cardinality(S) -> S] : \A x \in S : \E i \in DOMAIN s : s[i] = x}

\* JavaScript truthiness of a column value: undefined (no such column),
\* null and '' are falsy
RowParent(row) == IF "parent" \in DOMAIN row THEN row.parent ELSE NULL
Truthy(v) == v # NULL /\ v # ""

\* rows.map(row => ...): the feature of one row once its geometry has parsed
Feature(row, L) ==
    LET props == [name |-> row.name, type |-> row.type,
                  eng_type |-> row.eng_type, gid |-> row.gid,
                  country |-> row.country, level |-> L]
    IN  [type |-> "Feature",
         properties |-> IF Truthy(RowParent(row))
                        THEN props @@ [parent |-> row.parent] ELSE props,
         geometry |-> JSONparse(row.geojson).value]
\* try { JSON.parse } catch { return null }
FeatureOrNull(row, L) ==
    IF JSONparse(row.geojson).threw THEN [type |-> "null"] ELSE Feature(row, L)
\* rows.map(...).filter(f => f !== null)
BuildFeatures(rows, L) ==
    SelectSeq([i \in DOMAIN rows |-> FeatureOrNull(rows[i], L)],
              LAMBDA f : f.type # "null")

\* process_data.sh: WHERE NAME_L IS NOT NULL
OfflineWhere(row, L) == row.NAME[L] # NULL
\* process_data.sh: GROUP BY GID_L, NAME_L, NAME_(L-1), ..., NAME_0, TYPE_L,
\* ENGTYPE_L
OfflineKey(row, L) ==
    <<row.GID[L], [k \in 0..L |-> row.NAME[k]], row.TYPE[L], row.ENGTYPE[L]>>
OfflineGroups(rows, L) ==
    Groups({r \in rows : OfflineWhere(r, L)}, [r \in rows |-> OfflineKey(r, L)])
\* SELECT NAME_0, ..., NAME_L, GID_L, TYPE_L, ENGTYPE_L, ST_Union(geom)
OfflineFeature(g, L) ==
    LET r == CHOOSE x \in g : TRUE
    IN  [NAME |-> [k \in 0..L |-> r.NAME[k]], GID |-> r.GID[L],
         TYPE |-> r.TYPE[L], ENGTYPE |-> r.ENGTYPE[L],
         geometry |-> ST_Union_Agg(g)]

pageVars == <<variant, initPc, countriesData, selectValue, currentCountry,
              currentLevel, view, buttons, activeButtons, containerVisible,
              loading, db, conn, duckDBReady, boundaryLayer, mapLayers, calls,
              nCalls, mapLoaded, map>>

\* a level is asked for over a table of raw rows
InitAggregate ==
    /\ InitPage /\ OnDemand
    /\ \E L \in AggLevels : \E t \in Tables(L) :
         agg = [pc |-> "rows", level |-> L, rows |-> t, result |-> << >>,
                features |-> << >>, extracted |-> FALSE, offline |-> {}]

\* `await conn.query(query)` resolves with the result rows, in some order;
\* the geometry text of any of them may arrive malformed
AggQuery ==
    /\ agg.pc = "rows"
    /\ event' = "query"
    /\ \E res \in Orderings({ResultRow(g, agg.level) :
                                g \in OnlineGroups(agg.rows, agg.level)}) :
       \E bad \in SUBSET DOMAIN res :
         agg' = [agg EXCEPT !.pc = "result",
                   !.result = [i \in DOMAIN res |->
                                 IF i \in bad
                                 THEN [res[i] EXCEPT !.geojson = Malformed]
                                 ELSE res[i]]]
    /\ UNCHANGED <<pageVars, errors>>

\* feature building with the JSON.parse outside any try block of its own: the
\* exception ends up in the catch block of loadBoundaries
AggFeaturesNoCatch ==
    /\ agg.pc = "result"
    /\ event' = "features"
    /\ IF \E i \in DOMAIN agg.result : JSONparse(agg.result[i].geojson).threw
       THEN /\ agg' = [agg EXCEPT !.pc = "features"]
            /\ errors' = errors \cup {"Failed to load boundaries"}
       ELSE /\ agg' = [agg EXCEPT !.pc = "features",
                         !.features = BuildFeatures(agg.result, agg.level)]
            /\ UNCHANGED errors
    /\ UNCHANGED pageVars

\* the features of the collection handed to L.geoJSON
AggFeatures ==
    /\ agg.pc = "result"
    /\ event' = "features"
    /\ agg' = [agg EXCEPT !.pc = "features",
                 !.features = BuildFeatures(agg.result, agg.level)]
    /\ UNCHANGED <<pageVars, errors>>

\* process_data.sh extracts the level from the same rows
AggOffline ==
    /\ agg.pc # "none" /\ ~agg.extracted
    /\ agg.level \in OfflineLevels
    /\ event' = "extract"
    /\ agg' = [agg EXCEPT !.extracted = TRUE,
                 !.offline = {OfflineFeature(g, agg.level) :
                                g \in OfflineGroups(agg.rows, agg.level)}]
    /\ UNCHANGED <<pageVars, errors>>

NextAggregate == AggQuery \/ AggFeatures \/ AggOffline

SpecAggregate == InitAggregate /\ [][NextAggregate]_vars

(***************************************************************************)
(* Properties                                                              *)
(***************************************************************************)
LayerLevel(l) == l.id[2]
LayersOf(m) == Range(m.layers)

\* C1: on-demand, selectLevel(1) then selectLevel(2) before the first
\* resolves: when the later of the two queries resolves and nothing is left
\* in flight, the layer displayed is level 2's, whichever resolved first.
\* The two queries are the one resolving in this step and the one whose
\* layer is displayed; the level-2 call is the one issued second.
C1_Level2DisplayedOnceBothResolve ==
    [][ ( /\ OnDemand
          /\ event' = "queryResolved"
          /\ Len(calls) = 1 /\ calls' = << >>
          /\ boundaryLayer # NoLayer
          /\ calls[1].file = boundaryLayer.file
          /\ \/ /\ boundaryLayer.level = 1 /\ calls[1].level = 2
                /\ calls[1].id = boundaryLayer.id + 1
             \/ /\ boundaryLayer.level = 2 /\ calls[1].level = 1
                /\ boundaryLayer.id = calls[1].id + 1 )
        => boundaryLayer'.level = 2 ]_vars

\* C2: on-demand, once nothing is in flight and every aggregation has
\* succeeded, a displayed boundary layer holds the geometry of the country
\* selected in the dropdown (for which an aggregation was started): a
\* result computed for a previously selected country is not left displayed.
C2_DisplayedLayerIsOfSelectedCountry ==
    ( /\ OnDemand /\ calls = << >> /\ errors = {}
      /\ selectValue # "" /\ AdminLevels[selectValue] # << >>
      /\ boundaryLayer # NoLayer )
        => boundaryLayer.file = selectValue

\* C3: on-demand, at most one boundary layer is on the map in every
\* reachable state, and it is the one the script refers to.
C3_AtMostOneBoundaryLayer ==
    OnDemand => /\ Cardinality(mapLayers) <= 1
                /\ mapLayers = {boundaryLayer} \ {NoLayer}

\* a second result has been applied over a displayed one: the calls for
\* levels 1 and 2 of country A both succeeded and the first resolved last
C3_Witness ==
    /\ OnDemand /\ event = "queryResolved"
    /\ nCalls = 2 /\ calls = << >> /\ errors = {}
    /\ selectValue = "A" /\ currentLevel = 2
    /\ boundaryLayer.id = 1 /\ mapLayers = {boundaryLayer}

\* C4: on-demand, from clearSelection until the next selectCountry (the
\* dropdown shows the empty option) the state is Idle: currentCountry and
\* currentLevel are none and no boundary layer is displayed.
C4_IdleAfterClearSelection ==
    (OnDemand /\ selectValue = "")
        => /\ currentCountry = NULL
           /\ currentLevel = NoLevel
           /\ boundaryLayer = NoLayer
           /\ mapLayers = {}

\* C5: in Idle (no country selected in the dropdown), in the scripts
\* part_000 and part_001, no level control is available, so no selectLevel
\* or toggleLevel event arrives, and every user event other than
\* selectCountry leaves the Selection, the map's sources and layers and the
\* loading indicator unchanged and starts no query.
Idle == selectValue = ""
UserEvents == {"selectCountry", "clearSelection", "reset", "selectLevel",
               "toggleLevel"}
C6_NoDuplicateIds ==
    Tiled => /\ \A i, j \in DOMAIN map.layers :
                    i # j => map.layers[i].id # map.layers[j].id
             /\ \A i, j \in DOMAIN map.sources :
                    i # j => map.sources[i].id # map.sources[j].id

\* the map's load event ran addLevelLayer(0, true) after a selectCountry
\* had already created level 0
C6_Witness ==
    /\ Tiled /\ event = "mapLoad" /\ selectValue # ""
    /\ GetLayer(map, LineLayerId(0)) /\ GetLayer(map, FillLayerId(0))
    /\ GetSource(map, SourceId(0))

\* C7: tiled, addLevelLayer(level, v); setLayerVisibility(level, v) done
\* twice with the same level, visibility and selected country leaves the
\* same sources and layers (ids, order, filters, paints, visibilities) as
\* done once.
C7_EnsureLevelVisibleIdempotent ==
    Tiled => \A level \in 0..MaxLevel : \A v \in BOOLEAN :
        LET once == EnsureLevelVisible(variant, map, level, v, currentCountry)
        IN EnsureLevelVisible(variant, once, level, v, currentCountry) = once

\* a level button was clicked on: its layers were created or shown
C7_Witness ==
    /\ Tiled /\ event = "toggleLevel" /\ 2 \in activeButtons
    /\ \E l \in LayersOf(map) : l.id = FillLayerId(2) /\ l.visible

\* C8: part_001, while a country is selected every level >= 1 layer is
\* filtered on that country's name, and a level-0 layer never has a filter.
C8_FilterIsSelectedCountry ==
    variant = "part_001" =>
        \A l \in LayersOf(map) :
            /\ (currentCountry # NULL /\ LayerLevel(l) >= 1)
                   => l.filter = currentCountry
            /\ LayerLevel(l) = 0 => l.filter = NULL

\* country B is selected after country A was (level 1 exists for A only),
\* and B's level 2, which A has too, is on the map
C8_Witness ==
    /\ variant = "part_001" /\ currentCountry = "B"
    /\ GetSource(map, SourceId(1))
    /\ \E l \in LayersOf(map) : l.id = FillLayerId(2) /\ l.filter = "B"

\* C9: src/js/app.js, while a country is selected every level > 0 layer is
\* filtered on NAME_0 = the selected country.
C9_AppFilterIsSelectedCountry ==
    (variant = "app_js" /\ currentCountry # NULL) =>
        \A l \in LayersOf(map) : LayerLevel(l) > 0 => l.filter = currentCountry

\* C10: part_001, right after selectCountry(c) the level buttons are those
\* of level 0 and of c.admin_levels, only level 0 is active, the level-0
\* layers are visible and no level 1..5 layer is visible.
C10_AfterSelectCountry ==
    (variant = "part_001" /\ event = "selectCountry") =>
        /\ buttons = {0} \cup Range(AdminLevels[currentCountry])
        /\ activeButtons = {0}
        /\ \E l \in LayersOf(map) : l.id = LineLayerId(0) /\ l.visible
        /\ \E l \in LayersOf(map) : l.id = FillLayerId(0) /\ l.visible
        /\ \A l \in LayersOf(map) : LayerLevel(l) \in 1..MaxLevel => ~l.visible

\* selectCountry(B) came after country A had been selected
C10_Witness ==
    /\ variant = "part_001" /\ event = "selectCountry" /\ currentCountry = "B"
    /\ GetSource(map, SourceId(1))
    /\ buttons = {0, 2}

\* C11: src/js/app.js, right after selectCountry(c), from whatever state it
\* was made in, no level 1..5 layer is visible.
C11_AppNoAdminLevelVisibleAfterSelect ==
    (variant = "app_js" /\ event = "selectCountry") =>
        \A l \in LayersOf(map) : LayerLevel(l) \in 1..MaxLevel => ~l.visible

\* both layers of the level exist and are visible / none of them is visible
LevelVisible(m, level) ==
    /\ \E l \in LayersOf(m) : l.id = LineLayerId(level) /\ l.visible
    /\ \E l \in LayersOf(m) : l.id = FillLayerId(level) /\ l.visible
LevelHidden(m, level) ==
    \A l \in LayersOf(m) : LayerLevel(l) = level => ~l.visible

\* C12: tiled, while a country is selected every level button is active
\* exactly when the level's line and fill layers are visible, and a click on
\* a level button flips the active flag of that one button and of no other.
C12_ControlActiveIffVisible ==
    /\ []((Tiled /\ selectValue # "") =>
            \A level \in buttons :
                IF level \in activeButtons THEN LevelVisible(map, level)
                                           ELSE LevelHidden(map, level))
    /\ [][ (Tiled /\ event' = "toggleLevel") =>
             /\ buttons' = buttons
             /\ \E level \in buttons :
                    activeButtons' = IF level \in activeButtons
                                     THEN activeButtons \ {level}
                                     ELSE activeButtons \cup {level} ]_vars

\* country A is selected, its level 1 was switched on and level 0 off
C12_Witness ==
    /\ Tiled /\ event = "toggleLevel" /\ selectValue = "A"
    /\ activeButtons = {1}
    /\ LevelVisible(map, 1) /\ LevelHidden(map, 0) /\ LevelHidden(map, 2)

\* C13: tiled, a click on the button of a level whose layers exist changes
\* the visibility of that level's line and fill layers and nothing else of
\* the map: the sources, the number and order of the layers, every other
\* layer, all filters and paints, the viewport and the selected country
\* stay as they were.
C13_ToggleChangesVisibilityOnly ==
    [][ (Tiled /\ event' = "toggleLevel") =>
          \A level \in 0..MaxLevel :
              ( /\ (level \in activeButtons) # (level \in activeButtons')
                /\ GetLayer(map, LineLayerId(level))
                /\ GetLayer(map, FillLayerId(level)) )
              => /\ map'.sources = map.sources
                 /\ Len(map'.layers) = Len(map.layers)
                 /\ \A i \in DOMAIN map.layers :
                        map'.layers[i] =
                            IF LayerLevel(map.layers[i]) = level
                            THEN [map.layers[i] EXCEPT
                                      !.visible = (level \in activeButtons')]
                            ELSE map.layers[i]
                 /\ UNCHANGED <<view, currentCountry, selectValue, buttons>> ]_vars

\* level 2 of country A was switched on and off again while level 1 is on
C13_Witness ==
    /\ Tiled /\ event = "toggleLevel" /\ selectValue = "A"
    /\ activeButtons = {0, 1}
    /\ GetLayer(map, FillLayerId(2)) /\ LevelHidden(map, 2)
    /\ LevelVisible(map, 1)

\* C14: part_001, right after the reset action no line or fill layer of a
\* level 1..5 is on the map and the level-0 line layer has the plain
\* STYLES[0] color and width.
C14_AfterReset ==
    (variant = "part_001" /\ event = "reset") =>
        /\ \A l \in LayersOf(map) : LayerLevel(l) \notin 1..MaxLevel
        /\ \A l \in LayersOf(map) : l.id = LineLayerId(0) => l.highlight = NULL

\* the reset action ran after country A's levels had been created and the
\* level-0 layers exist
C14_Witness ==
    /\ variant = "part_001" /\ event = "reset"
    /\ GetSource(map, SourceId(1)) /\ GetSource(map, SourceId(2))
    /\ GetLayer(map, LineLayerId(0)) /\ ~GetLayer(map, LineLayerId(1))

\* C15: tiled, from the map's load event on the level-0 source, line layer
\* and fill layer are on the map.
C15_Level0Stays ==
    (Tiled /\ mapLoaded) =>
        /\ GetSource(map, SourceId(0))
        /\ GetLayer(map, LineLayerId(0))
        /\ GetLayer(map, FillLayerId(0))

\* the selection was cleared through the dropdown after the load event and
\* after a country's levels had been created
C15_Witness ==
    /\ Tiled /\ mapLoaded /\ event = "clearSelection"
    /\ GetSource(map, SourceId(2))
    /\ GetLayer(map, FillLayerId(0))

\* C16: tiled, the source of a level has the level's URL and, once added,
\* stays: no step removes or replaces a source, and no level has two.
C16_SourcesPersist ==
    /\ [](Tiled => /\ \A i \in DOMAIN map.sources :
                          map.sources[i].url = map.sources[i].id
                   /\ \A i, j \in DOMAIN map.sources :
                          map.sources[i].id = map.sources[j].id => i = j)
    /\ [][ Tiled => /\ Len(map'.sources) >= Len(map.sources)
                    /\ \A i \in DOMAIN map.sources :
                           map'.sources[i] = map.sources[i] ]_vars

\* country B was selected after country A: level 1's layers are gone, its
\* source is not
C16_Witness ==
    /\ variant = "part_001" /\ event = "selectCountry" /\ selectValue = "B"
    /\ GetSource(map, SourceId(1)) /\ ~GetLayer(map, FillLayerId(1))
    /\ GetSource(map, SourceId(2)) /\ GetLayer(map, FillLayerId(2))

\* C17: part_000 and part_001, right after the selection is cleared, by the
\* reset action or by the empty option of the dropdown, the viewport is the
\* initial one and no layer of a level >= 1 is displayed.
C17_ClearRestoresDefaultView ==
    ( /\ variant \in {"part_000", "part_001"}
      /\ event \in {"clearSelection", "reset"} )
    => /\ view = IF OnDemand THEN LeafletDefaultView ELSE MapLibreDefaultView
       /\ mapLayers = {}
       /\ \A l \in LayersOf(map) : LayerLevel(l) >= 1 => ~l.visible

\* the call numbered id is suspended in waitForDuckDB
WaitingCall(id) == \E i \in Waiting : calls[i].id = id
CallOf(id) == calls[CHOOSE i \in DOMAIN calls : calls[i].id = id]

\* C18: on-demand, a loadBoundaries call makes at most 60 readiness polls.
\* A poll that finds the engine not ready issues no query and leaves the
\* boundary layer alone; before the 60th it only counts, and the 60th ends
\* the call, shows the error "Database failed to initialize" and hides the
\* loading indicator.  Every call that waits for the engine stops waiting.
C18_WaitIsBounded ==
    /\ [](OnDemand => \A i \in DOMAIN calls :
              /\ calls[i].polls <= PollLimit
              /\ calls[i].pc = "wait" => calls[i].polls < PollLimit)
    /\ [][ \A id \in 1..MaxCalls :
             ( /\ OnDemand /\ event' = "poll"
               /\ ~(duckDBReady /\ conn # 0)
               /\ WaitingCall(id)
               /\ \A j \in DOMAIN calls' : calls'[j] # CallOf(id) )
             => /\ UNCHANGED <<boundaryLayer, mapLayers>>
                /\ \A j \in DOMAIN calls' :
                       calls'[j].id = id =>
                           /\ calls'[j].pc = "wait"
                           /\ calls'[j].polls = CallOf(id).polls + 1
                /\ CallOf(id).polls = PollLimit - 1 =>
                       /\ \A j \in DOMAIN calls' : calls'[j].id # id
                       /\ "Database failed to initialize" \in errors'
                       /\ ~loading' ]_vars
    /\ \A id \in 1..MaxCalls : WaitingCall(id) ~> ~WaitingCall(id)

\* a call gave up after its 60th poll: the engine never became ready, the
\* error is shown, nothing is in flight and no boundary layer was added
C18_Witness ==
    /\ OnDemand /\ event = "poll" /\ calls = << >> /\ nCalls = 1
    /\ ~duckDBReady /\ ~loading
    /\ "Database failed to initialize" \in errors
    /\ boundaryLayer = NoLayer

\* C19: on-demand, a query is in flight only once initDuckDB has run to its
\* end: the instance and the connection exist, LOAD spatial has resolved and
\* duckDBReady is set.
C19_QueryOnlyWhenInitialized ==
    OnDemand => \A i \in DOMAIN calls :
        calls[i].pc = "query" =>
            /\ initPc = "ready" /\ duckDBReady
            /\ db # 0 /\ conn # 0

\* a call made while initDuckDB was still running has waited and now queries
C19_Witness ==
    /\ OnDemand /\ initPc = "ready"
    /\ \E i \in DOMAIN calls : calls[i].pc = "query" /\ calls[i].polls > 0

C21_SelectCountryRemovesLayer ==
    /\ []((OnDemand /\ event = "selectCountry")
              => mapLayers = {} /\ boundaryLayer = NoLayer)
    /\ [][ (OnDemand /\ mapLayers = {} /\ mapLayers' # {})
              => event' = "queryResolved" ]_vars

\* country B was selected while A's level-1 result was on display
C21_Witness ==
    /\ OnDemand /\ event = "selectCountry" /\ selectValue = "B"
    /\ nCalls = 2 /\ Len(calls) = 1 /\ calls[1].id = 2 /\ errors = {}
    /\ mapLayers = {}

\* C22: on-demand, a failed query shows the error "Failed to load
\* boundaries", hides the loading indicator and changes nothing else of the
\* engine, the selection or the map; and after a failure a query that
\* resolves has its result displayed as the one boundary layer.
C22_QueryFailureNotSticky ==
    /\ [][ (OnDemand /\ event' = "queryFailed") =>
             /\ "Failed to load boundaries" \in errors'
             /\ ~loading'
             /\ UNCHANGED <<db, conn, duckDBReady, currentCountry, currentLevel,
                            buttons, containerVisible, boundaryLayer, mapLayers>> ]_vars
    /\ [][ ( /\ OnDemand /\ event' = "queryResolved"
             /\ "Failed to load boundaries" \in errors ) =>
             /\ \E i \in DOMAIN calls :
                    /\ calls[i].pc = "query"
                    /\ boundaryLayer' = ResultLayer(calls[i])
             /\ mapLayers' = {boundaryLayer'}
             /\ ~loading' ]_vars

\* the first query of the session failed and the second one, started after
\* the failure by a click on level 2, is displayed
C22_Witness ==
    /\ OnDemand /\ event = "queryResolved"
    /\ errors = {"Failed to load boundaries"}
    /\ nCalls = 2 /\ calls = << >>
    /\ boundaryLayer.id = 2 /\ boundaryLayer.level = 2
    /\ mapLayers = {boundaryLayer}

\* C24: once the catalog load has failed, the error is shown, the dropdown
\* holds no country and the Selection stays Idle: no country selected, no
\* level button, no aggregation started, no boundary or level layer shown.
C24_NoCatalogStaysIdle ==
    /\ (initPc # "catalog" /\ ~countriesData)
           => "Failed to load country list" \in errors
    /\ "Failed to load country list" \in errors =>
        /\ selectValue = "" /\ currentCountry = NULL /\ currentLevel = NoLevel
        /\ buttons = {} /\ activeButtons = {} /\ ~containerVisible
        /\ nCalls = 0 /\ calls = << >>
        /\ boundaryLayer = NoLayer /\ mapLayers = {}
        /\ \A l \in LayersOf(map) : LayerLevel(l) = 0

\* the catalog load failed and the user went on to press reset-view after
\* the map had loaded
C24_Witness ==
    /\ variant = "part_001" /\ ~countriesData /\ event = "reset"
    /\ mapLoaded /\ errors # {}

\* the catalog's bounds: [minLon, minLat, maxLon, maxLat]
MinLon(b) == b[1]
MinLat(b) == b[2]
MaxLon(b) == b[3]
MaxLat(b) == b[4]

\* C25: right after selectCountry(c) the viewport request is a fit to the
\* corners of c.bounds, south-west then north-east, latitude first for
\* Leaflet (on-demand) and longitude first for MapLibre (tiled).
C25_FitBoundsCorners ==
    (event = "selectCountry") =>
        LET b == Bounds[selectValue]
        IN /\ view.kind = "fit"
           /\ IF OnDemand
              THEN /\ view.p = <<MinLat(b), MinLon(b)>>
                   /\ view.q = <<MaxLat(b), MaxLon(b)>>
              ELSE /\ view.p = <<MinLon(b), MinLat(b)>>
                   /\ view.q = <<MaxLon(b), MaxLat(b)>>

\* country A, bounds [10, 11, 20, 21], was selected in the on-demand script
C25_Witness ==
    /\ OnDemand /\ event = "selectCountry" /\ selectValue = "A"
    /\ view = [kind |-> "fit", p |-> <<11, 10>>, q |-> <<21, 20>>]

\* C30: part_002, at most one click, one mouseenter and one mouseleave
\* listener is registered for a level at any time, and exactly one of each
\* while the level's fill layer is on the map.
C30_OneHandlerPerLevel ==
    variant = "part_002" =>
        \A level \in 0..MaxLevel : \A e \in EventTypes :
            /\ map.listeners[level][e] <= 1
            /\ GetLayer(map, FillLayerId(level)) => map.listeners[level][e] = 1

\* level 2's fill layer was removed and made again: country B was selected
\* after country A, which has level 2 as well
C30_Witness ==
    /\ variant = "part_002" /\ event = "selectCountry" /\ selectValue = "B"
    /\ GetSource(map, SourceId(1))
    /\ GetLayer(map, FillLayerId(2))
    /\ map.listeners[2]["click"] = 1 /\ map.stored[2]["click"]

(***************************************************************************)
(* Properties of the aggregation                                           *)
(***************************************************************************)
\* the aggregation has returned its features
Aggregated == agg.pc = "features"
FeaturesOf == Range(agg.features)
\* the result rows whose geometry text parses, in result order
ParsedRows == SelectSeq(agg.result, LAMBDA r : ~JSONparse(r.geojson).threw)
DroppedRows == {i \in DOMAIN agg.result : JSONparse(agg.result[i].geojson).threw}

\* C23: a result row whose geometry text does not parse is dropped and
\* nothing else is: the features of the collection are the other rows of the
\* result, one feature per row and in the order of the result, each with the
\* row's columns and its parsed geometry, and no error message is shown.
C23_OnlyUnparsableRowsDropped ==
    Aggregated =>
        /\ Len(agg.features) = Len(ParsedRows)
        /\ \A i \in DOMAIN ParsedRows :
             /\ agg.features[i].properties.name = ParsedRows[i].name
             /\ agg.features[i].properties.gid = ParsedRows[i].gid
             /\ agg.features[i].properties.type = ParsedRows[i].type
             /\ agg.features[i].properties.eng_type = ParsedRows[i].eng_type
             /\ agg.features[i].properties.country = ParsedRows[i].country
             /\ agg.features[i].geometry = ParsedRows[i].geojson.of
        /\ errors = {}
\* the second row of a result of three was dropped and the first and the
\* third became the two features, in that order
C23_Witness ==
    /\ Aggregated
    /\ Len(agg.result) = 3 /\ DroppedRows = {2}
    /\ Len(agg.features) = 2
    /\ agg.features[1].properties = Feature(agg.result[1], agg.level).properties
    /\ agg.features[2].properties = Feature(agg.result[3], agg.level).properties
    /\ agg.features[1].properties # agg.features[2].properties

Unnamed(r) == r.NAME[agg.level] = NULL \/ r.NAME[agg.level] = ""
\* the sets of raw rows that a feature can have been made of: rows with the
\* feature's name and identifier whose geometries add up to the feature's
MadeOf(f) ==
    {S \in SUBSET agg.rows :
        /\ S # {}
        /\ \A r \in S : /\ r.NAME[agg.level] = f.properties.name
                         /\ r.GID[agg.level] = f.properties.gid
        /\ f.geometry = UNION {r.geometry : r \in S}}

\* C26: at every level no feature the aggregation returns has a null or
\* empty name, and the raw rows whose NAME_L is null or empty are part of no
\* feature: every feature is made of raw rows that have its (non-empty)
\* name, and there are no more features than named raw rows.
C26_NoUnnamedFeature ==
    Aggregated =>
        /\ \A f \in FeaturesOf :
              /\ f.properties.name # NULL /\ f.properties.name # ""
              /\ MadeOf(f) # {}
              /\ \A S \in MadeOf(f) : \A r \in S : ~Unnamed(r)
        /\ Len(agg.features) <= Cardinality({r \in agg.rows : ~Unnamed(r)})
\* a table with a named row, a row named '' and a row with no name gave one
\* feature
C26_Witness ==
    /\ Aggregated
    /\ \E r \in agg.rows : r.NAME[agg.level] = ""
    /\ \E r \in agg.rows : r.NAME[agg.level] = NULL
    /\ Len(agg.features) = 1

\* two raw rows of the level-2 table that differ in their geometry only
SameButGeometry(r, q) ==
    /\ r.geometry # q.geometry
    /\ [r EXCEPT !.geometry = {}] = [q EXCEPT !.geometry = {}]
\* GID_2 identifies a region: the rows of the table that have the GID_2 of r
\* have its names and types as well
OneRegion(r) ==
    \A x \in agg.rows : x.GID[2] = r.GID[2] => OnlineKey(x, 2) = OnlineKey(r, 2)

C28_ParentIffLevelAbove1 ==
    Aggregated =>
        \A f \in FeaturesOf :
            ("parent" \in DOMAIN f.properties) <=> (agg.level > 1)

\* what an online result row and an offline feature say about a region
OnlineRegion(row) ==
    [name |-> row.name, gid |-> row.gid, type |-> row.type,
     eng_type |-> row.eng_type, country |-> row.country,
     parent |-> RowParent(row), geometry |-> row.geojson.of]
OfflineRegion(f) ==
    [name |-> f.NAME[agg.level], gid |-> f.GID, type |-> f.TYPE,
     eng_type |-> f.ENGTYPE, country |-> f.NAME[0],
     parent |-> IF agg.level > 1 THEN f.NAME[agg.level - 1] ELSE NULL,
     geometry |-> f.geometry]

\* C29: at each level the offline conversion extracts, the online query
\* excludes the rows the offline extraction excludes and groups the others
\* as it does, and so both give the same regions, each as many times.
C29_OnlineAgreesWithOffline ==
    (agg.pc \in {"result", "features"} /\ agg.extracted /\ DroppedRows = {}) =>
        /\ {r \in agg.rows : OnlineWhere(r, agg.level)}
             = {r \in agg.rows : OfflineWhere(r, agg.level)}
        /\ OnlineGroups(agg.rows, agg.level) = OfflineGroups(agg.rows, agg.level)
        /\ \A reg \in {OnlineRegion(agg.result[i]) : i \in DOMAIN agg.result}
                      \cup {OfflineRegion(f) : f \in agg.offline} :
              Cardinality({i \in DOMAIN agg.result :
                              OnlineRegion(agg.result[i]) = reg})
                = Cardinality({f \in agg.offline : OfflineRegion(f) = reg})

(***************************************************************************)
(* Properties of the variants' reset, handlers and layer pairs             *)
(***************************************************************************)
\* the ids of the layers of the map, in the map's order
LayerIds(m) == [i \in DOMAIN m.layers |-> m.layers[i].id]

\* C31: src/js/app.js, the reset action removes no layer and leaves every
\* layer of a level 1..5 hidden and the level-0 line and fill layers (which
\* are on the map from the load event or the first selection on) visible.
C31_AppResetHidesAdminLevels ==
    /\ []((variant = "app_js" /\ event = "reset") =>
            /\ \A level \in 1..MaxLevel : LevelHidden(map, level)
            /\ \A l \in LayersOf(map) : LayerLevel(l) = 0 => l.visible
            /\ mapLoaded => LevelVisible(map, 0))
    /\ [][(variant = "app_js" /\ event' = "reset") =>
            /\ LayerIds(map') = LayerIds(map)
            /\ map'.sources = map.sources]_vars

\* the reset action ran with country A's level 1 on display and with level 0
\* switched off by its button: level 1 is still on the map, hidden, and level
\* 0 is visible
C31_Witness ==
    /\ variant = "app_js" /\ event = "reset"
    /\ 1 \in activeButtons /\ 0 \notin activeButtons /\ 0 \in buttons
    /\ GetLayer(map, FillLayerId(1)) /\ LevelHidden(map, 1)
    /\ LevelVisible(map, 0)

\* C32: part_001, at most one click handler is registered for the fill
\* layer of each level in every reachable state.
C32_OneClickHandlerPerLevel ==
    variant = "part_001" =>
        \A level \in 0..MaxLevel : map.listeners[level]["click"] <= 1

\* C33: part_001, right after the reset action the line and fill layers of
\* level 0 that are on the map are visible, and both are once the map has
\* loaded.
C33_Level0VisibleAfterReset ==
    (variant = "part_001" /\ event = "reset") =>
        /\ \A l \in LayersOf(map) : LayerLevel(l) = 0 => l.visible
        /\ mapLoaded => LevelVisible(map, 0)

\* C34: tiled, between handlers each level has its line layer exactly when
\* it has its fill layer, and the layers of one level are all visible or all
\* hidden.
C34_LineAndFillTogether ==
    Tiled =>
        \A level \in 0..MaxLevel :
            /\ GetLayer(map, LineLayerId(level)) <=> GetLayer(map, FillLayerId(level))
            /\ \A l, k \in LayersOf(map) :
                   (LayerLevel(l) = level /\ LayerLevel(k) = level)
                       => l.visible = k.visible

\* level 2's pair was switched on and off again and level 1's pair is on
\* display, while no layer of level 3 is on the map
C34_Witness ==
    /\ Tiled /\ event = "toggleLevel" /\ mapLoaded
    /\ GetLayer(map, LineLayerId(2)) /\ GetLayer(map, FillLayerId(2))
    /\ LevelHidden(map, 2) /\ LevelVisible(map, 1) /\ LevelVisible(map, 0)
    /\ ~GetLayer(map, LineLayerId(3)) /\ ~GetLayer(map, FillLayerId(3))

(***************************************************************************)
(* Properties of the on-demand loads                                       *)
(***************************************************************************)
\* C35: on-demand, when the query of the only load in flight fails while a
\* layer of the selected country for another level is displayed, the level
\* recorded as current and the one active level button are afterwards the
\* level of the layer displayed.
C35_CurrentLevelIsDisplayedLevel ==
    [][ ( /\ OnDemand /\ event' = "queryFailed"
          /\ Len(calls) = 1 /\ calls' = << >>
          /\ calls[1].file = currentCountry
          /\ boundaryLayer # NoLayer /\ boundaryLayer.file = currentCountry
          /\ boundaryLayer.level # calls[1].level )
        => /\ boundaryLayer' # NoLayer /\ mapLayers' = {boundaryLayer'}
           /\ currentLevel' = boundaryLayer'.level
           /\ activeButtons' = {boundaryLayer'.level} ]_vars

\* C36: on-demand, a loadBoundaries call that has issued its query queries
\* the file of the country that was selected when the call was made.
C36_QueriesCountryOfTheCall ==
    OnDemand =>
        \A i \in DOMAIN calls :
            calls[i].pc = "query" => calls[i].file = calls[i].country

\* C37: on-demand, while a loadBoundaries call is in flight, waiting for the
\* engine or for its query, the loading indicator is displayed.
C37_LoadingWhileInFlight ==
    (OnDemand /\ calls # << >>) => loading

\* the loadBoundaries call with this id is suspended at an await
CallInFlight(id) == \E i \in DOMAIN calls : calls[i].id = id
\* the catalog load, the engine initialization or a loadBoundaries call has
\* not come to its end
InFlight == initPc \notin {"ready", "failed"} \/ calls # << >>

\* C38: on-demand, with every fetch, engine call and timer coming to an end,
\* the catalog load ends, the engine initialization ends (ready or failed),
\* every loadBoundaries call that is in flight ends, and whenever nothing is
\* in flight the loading indicator is hidden.
C38_EverythingCompletes ==
    /\ <>(OnDemand => initPc # "catalog")
    /\ <>(OnDemand => initPc \in {"ready", "failed"})
    /\ \A id \in 1..MaxCalls : CallInFlight(id) ~> ~CallInFlight(id)
    /\ []((OnDemand /\ ~InFlight) => ~loading)

\* nothing is in flight after the engine became ready, a query succeeded and
\* a later one failed
C38_Witness ==
    /\ OnDemand /\ ~InFlight /\ ~loading
    /\ initPc = "ready" /\ nCalls >= 2
    /\ event = "queryFailed" /\ boundaryLayer # NoLayer

====
